---- MODULE Spec2Model ----
(***************************************************************************)
(* Model of internal/api/handler: the investment-return simulation         *)
(* (RendimentsHandler) and the priority bookkeeping of SavingHandler.      *)
(*                                                                         *)
(* float64 values are modelled as fixed-point integers: the float x is the *)
(* integer x * Scale, and every float operation rounds its exact result to *)
(* the nearest representable value (as IEEE arithmetic does, at a coarser  *)
(* grain).  The non-finite floats NaN, +Inf and -Inf are kept apart in the *)
(* "extended" values used where the code divides.                          *)
(***************************************************************************)
EXTENDS Integers, Sequences, FiniteSets

VARIABLES sim, call, store, nextId, lastOp

vars == <<sim, call, store, nextId, lastOp>>

(***************************************************************************)
(* Fixed-point float64                                                     *)
(***************************************************************************)
Scale == 10 ^ 4

Abs(a) == IF a >= 0 THEN a ELSE -a

Sign(a) == IF a > 0 THEN 1 ELSE IF a < 0 THEN -1 ELSE 0

\* a / b rounded to the nearest integer, halves away from zero (b # 0)
RDiv(a, b) ==
    LET n == Abs(a)
        d == Abs(b)
        q == (2 * n + d) \div (2 * d)
    IN  IF Sign(a) * Sign(b) >= 0 THEN q ELSE -q

\* Go's integer division, which truncates toward zero (b > 0)
TruncDiv(a, b) == IF a >= 0 THEN a \div b ELSE -((-a) \div b)

\* float64(n) for an integer n
Float(n) == n * Scale

\* a * b on floats: round(a * b / Scale), split so that no product overflows
FMul(a, b) ==
    LET m == Abs(b)
        p == a * (m \div Scale) + RDiv(a * (m % Scale), Scale)
    IN  IF b >= 0 THEN p ELSE -p

\* a / b on floats, b # 0: round(a * Scale / b), without the product when b
\* is a whole number
FDiv(a, b) ==
    IF b % Scale = 0 THEN RDiv(a, b \div Scale) ELSE RDiv(a * Scale, b)

\* math.Floor
Floor(a) == (a \div Scale) * Scale

\* math.Round(x*100) / 100
Round2(a) == RDiv(a, Scale \div 100) * (Scale \div 100)

\* f * b * ... * b (k factors b), multiplied one factor at a time
RECURSIVE MulTimes(_, _, _)
MulTimes(f, b, k) == IF k = 0 THEN f ELSE FMul(MulTimes(f, b, k - 1), b)

\* b^n for n >= 0 as n successive multiplications, evaluated sixteen at a
\* time to keep the evaluation shallow
RECURSIVE PowNat(_, _)
PowNat(b, n) ==
    IF n <= 16 THEN MulTimes(Scale, b, n)
    ELSE CHOOSE r \in {MulTimes(p, b, 16) : p \in {PowNat(b, n - 16)}} : TRUE

\* math.Pow(b, float64(n)) for a base b > 0 and an integer exponent n
Pow(b, n) == IF n >= 0 THEN PowNat(b, n) ELSE FDiv(Scale, PowNat(b, -n))

(***************************************************************************)
(* Extended floats: finite values, NaN, +Inf, -Inf                         *)
(***************************************************************************)
Fin(v) == [fin |-> TRUE, v |-> v]

NaN == [fin |-> FALSE, v |-> 0]

Inf(s) == [fin |-> FALSE, v |-> s]

\* x * b, b finite
XMul(x, b) ==
    IF x.fin THEN Fin(FMul(x.v, b))
    ELSE IF x.v = 0 \/ b = 0 THEN NaN
    ELSE Inf(x.v * Sign(b))

\* x / b, b finite (a float zero is +0 here)
XDiv(x, b) ==
    IF x.fin
    THEN IF b # 0 THEN Fin(FDiv(x.v, b))
         ELSE IF x.v = 0 THEN NaN ELSE Inf(Sign(x.v))
    ELSE IF x.v = 0 THEN NaN
    ELSE IF b >= 0 THEN x ELSE Inf(-x.v)

\* a + x, a finite
XAdd(a, x) == IF x.fin THEN Fin(a + x.v) ELSE x

XRound2(x) == IF x.fin THEN Fin(Round2(x.v)) ELSE x

(***************************************************************************)
(* Program constants (rendiments.go, const block).  The float constants   *)
(* are written times Scale: 22.5 is 225000, 0.005 is 50, 0.085 is 850.     *)
(***************************************************************************)
CDI_TYPE == 1
SELIC == 2
CDI_PERCENT == 100
BUSINESS_DAYS == 21
UNTIL_180_DAYS == 225000
UNTIL_360_DAYS == 200000
UNTIL_720_DAYS == 175000
MORE_THAN_720_DAYS == 150000
ONE_YEAR_DAYS == 365
MONTH_TAX_DEFAULT == 50
SELIC_LESS_THAN_EIGHT == 850

(***************************************************************************)
(* SimulateCDB, the computation after a successful rate fetch              *)
(***************************************************************************)
\* totalDays := (months / 12.0) * ONE_YEAR_DAYS : months is an int, so the
\* untyped constant 12.0 is converted to int and the division truncates
TotalDays(months) == TruncDiv(months, 12) * ONE_YEAR_DAYS

BusinessDays(months) == months * BUSINESS_DAYS

TaxRate(totalDays) ==
    IF totalDays < 180 THEN UNTIL_180_DAYS
    ELSE IF totalDays < 360 THEN UNTIL_360_DAYS
    ELSE IF totalDays < 720 THEN UNTIL_720_DAYS
    ELSE MORE_THAN_720_DAYS

\* dailyCdi := metric.Value / 100.0 ; adjustedDailyCdi := dailyCdi * (CDI_PERCENT / 100.0)
AdjustedDailyCdi(metric) ==
    FMul(FDiv(metric, Float(100)), FDiv(Float(CDI_PERCENT), Float(100)))

\* a plausible slip: a minus sign in the base, discounting instead of compounding
GrowthBaseDiscounting(adjustedDailyCdi) == Scale - adjustedDailyCdi

\* 1+adjustedDailyCdi
GrowthBase(adjustedDailyCdi) == Scale + adjustedDailyCdi

\* finalAmount before the tax discount
GrossAmount(initialValue, months, metric) ==
    FMul(Floor(initialValue),
         Pow(GrowthBase(AdjustedDailyCdi(metric)), BusinessDays(months)))

\* finalAmount after "finalAmount -= taxDiscount", not yet rounded
NetAmount(initialValue, months, metric) ==
    LET finalAmount == GrossAmount(initialValue, months, metric)
        profit      == finalAmount - initialValue
        taxRate     == TaxRate(TotalDays(months))
        taxDiscount == FDiv(FMul(profit, taxRate), Float(100))
    IN  finalAmount - taxDiscount

\* a plausible slip: returning finalAmount without rounding it
CDBReturnUnrounded(finalAmount) == finalAmount

\* return math.Round(finalAmount*100.0) / 100.0
CDBReturn(finalAmount) == Round2(finalAmount)

CDBValue(initialValue, months, metric) ==
    CDBReturn(NetAmount(initialValue, months, metric))

(***************************************************************************)
(* The gin context: the JSON writes of one request, in order.  The first   *)
(* write fixes the status line; later writes append their bodies.          *)
(***************************************************************************)
\* ctx.AbortWithStatusJSON(status, gin.H{"code": status, "message": message})
ErrorJSON(status, message) ==
    [status |-> status, message |-> message, simulation |-> FALSE,
     cdb |-> 0, poupanca |-> Fin(0)]

\* ctx.JSON(http.StatusOK, simulations); encoding/json rejects NaN and +-Inf,
\* and then no body is written
SimulationJSON(cdb, poupanca) ==
    IF poupanca.fin
    THEN [status |-> 200, message |-> "", simulation |-> TRUE,
          cdb |-> cdb, poupanca |-> poupanca]
    ELSE [status |-> 200, message |-> "json: unsupported value",
          simulation |-> FALSE, cdb |-> 0, poupanca |-> Fin(0)]

(***************************************************************************)
(* The engine calls.  fetchOk is the outcome of GetLastMetric; a result is *)
(* the returned (value, err) pair and what the call wrote to the context.  *)
(***************************************************************************)
SimulateCDB(fetchOk, metric, initialValue, months) ==
    IF ~fetchOk
    THEN [value |-> 0, err |-> FALSE,
          writes |-> <<ErrorJSON(500, "ErrFindMetric")>>]
    ELSE [value |-> CDBValue(initialValue, months, metric), err |-> FALSE,
          writes |-> <<>>]

\* monthTax of SimulatePoupanca and SimulatePoupancaMonthly
MonthTax(metric) ==
    LET anualSelic == FDiv(metric, Float(100))
    IN  IF anualSelic < SELIC_LESS_THAN_EIGHT
        THEN FDiv(FMul((7 * Scale) \div 10, anualSelic), Float(12))
        ELSE MONTH_TAX_DEFAULT

SimulatePoupanca(fetchOk, metric, initialValue, months) ==
    IF ~fetchOk
    THEN [value |-> 0, err |-> FALSE,
          writes |-> <<ErrorJSON(500, "ErrFindMetric")>>]
    ELSE LET monthTax    == MonthTax(metric)
             finalAmount == FMul(initialValue, Pow(Scale + monthTax, months))
         IN  [value |-> Round2(finalAmount), err |-> FALSE, writes |-> <<>>]

\* initialValue is the quotient of line 95 and may be NaN or infinite
SimulatePoupancaMonthly(fetchOk, metric, initialValue, months, accumulated) ==
    IF ~fetchOk
    THEN [value |-> Fin(0), err |-> FALSE,
          writes |-> <<ErrorJSON(500, "ErrFindMetric")>>]
    ELSE LET accumulatedValue == IF accumulated.has THEN accumulated.val ELSE 0
             monthTax     == MonthTax(metric)
             growth       == Pow(Scale + monthTax, months)
             futureAmount == XDiv(XMul(initialValue, growth - Scale), monthTax)
             totalAmount  == XAdd(FMul(accumulatedValue, growth), futureAmount)
         IN  [value |-> XRound2(totalAmount), err |-> FALSE, writes |-> <<>>]

(***************************************************************************)
(* The handlers                                                            *)
(***************************************************************************)
\* what a handler call leaves behind: its inputs, the outcomes of its rate
\* fetches, the values the engine returned and the writes to the context
Outcome(handler, bindOk, req, cdi, selic, cdiOk, selicOk, cdbFailed, perMonth, cdb, poup, engineErr, writes) ==
    [handler |-> handler, bindOk |-> bindOk,
     InitialValue |-> req.InitialValue, Months |-> req.Months,
     Accumulated |-> req.Accumulated,
     cdi |-> cdi, selic |-> selic, cdiOk |-> cdiOk, selicOk |-> selicOk,
     cdbFailed |-> cdbFailed, perMonth |-> perMonth, cdb |-> cdb,
     poup |-> poup, engineErr |-> engineErr, writes |-> writes]

NoAccumulated == [has |-> FALSE, val |-> 0]

ZeroRequest == [InitialValue |-> 0, Months |-> 0, Accumulated |-> NoAccumulated]

BindFailure(handler) ==
    Outcome(handler, FALSE, ZeroRequest, 0, 0, TRUE, TRUE, {}, Fin(0), 0,
            Fin(0), FALSE,
            <<ErrorJSON(422, "Invalid simulation parameters")>>)

SimulateAllRendimentsCall(req, cdi, selic, cdiOk, selicOk) ==
    LET cdb == SimulateCDB(cdiOk, cdi, req.InitialValue, req.Months)
    IN  IF cdb.err
        THEN Outcome("all", TRUE, req, cdi, selic, cdiOk, TRUE, {}, Fin(0),
                     cdb.value, Fin(0), TRUE,
                     cdb.writes \o <<ErrorJSON(500, "ErrSimulateCdb")>>)
        ELSE
        LET poupanca == SimulatePoupanca(selicOk, selic, req.InitialValue, req.Months)
        IN  IF poupanca.err
            THEN Outcome("all", TRUE, req, cdi, selic, cdiOk, selicOk, {},
                         Fin(0), cdb.value, Fin(poupanca.value), TRUE,
                         cdb.writes \o poupanca.writes
                             \o <<ErrorJSON(500, "ErrSimulatePoupanca")>>)
            ELSE Outcome("all", TRUE, req, cdi, selic, cdiOk, selicOk, {},
                         Fin(0), cdb.value, Fin(poupanca.value), FALSE,
                         cdb.writes \o poupanca.writes
                             \o <<SimulationJSON(cdb.value, Fin(poupanca.value))>>)

\* the loop "for i := 0; i < monthsToCalculate; i++" from iteration i on,
\* with the running cdbFinalValue and the writes so far
RECURSIVE MonthlyLoop(_, _, _, _, _, _, _)
MonthlyLoop(i, monthsToCalculate, initialValue, cdi, cdbFailed, cdbFinalValue, writes) ==
    IF i >= monthsToCalculate
    THEN [cdbFinalValue |-> cdbFinalValue, writes |-> writes]
    ELSE LET cdbPerMonth == SimulateCDB(i \notin cdbFailed, cdi, initialValue, i)
         IN  IF cdbPerMonth.err
             THEN MonthlyLoop(i + 1, monthsToCalculate, initialValue, cdi,
                              cdbFailed, cdbFinalValue,
                              writes \o cdbPerMonth.writes)
             ELSE MonthlyLoop(i + 1, monthsToCalculate, initialValue, cdi,
                              cdbFailed, cdbFinalValue + cdbPerMonth.value,
                              writes \o cdbPerMonth.writes)

SimulateMonthlyRendimentsCall(req, cdi, selic, cdiOk, selicOk, cdbFailed) ==
    LET perMonth == XDiv(Fin(req.InitialValue), Float(req.Months))
        \* the loop runs only for Months >= 1, where the quotient is finite
        loop == MonthlyLoop(0, req.Months, perMonth.v, cdi, cdbFailed, 0, <<>>)
        poup == SimulatePoupancaMonthly(selicOk, selic, perMonth, req.Months,
                                        req.Accumulated)
        \* no return after this abort
        afterPoup == IF poup.err
                     THEN loop.writes \o poup.writes
                              \o <<ErrorJSON(422, "ErrSimulatePoupanca")>>
                     ELSE loop.writes \o poup.writes
    IN  IF req.Accumulated.has
        THEN LET accumulatedCdb ==
                     SimulateCDB(cdiOk, cdi, req.Accumulated.val, req.Months)
             IN  IF accumulatedCdb.err
                 THEN Outcome("monthly", TRUE, req, cdi, selic, cdiOk, selicOk,
                              cdbFailed, perMonth, loop.cdbFinalValue,
                              poup.value, TRUE,
                              afterPoup \o accumulatedCdb.writes
                                  \o <<ErrorJSON(500, "ErrSimulateCdb")>>)
                 ELSE LET total == Round2(loop.cdbFinalValue + accumulatedCdb.value)
                      IN  Outcome("monthly", TRUE, req, cdi, selic, cdiOk,
                                  selicOk, cdbFailed, perMonth, total,
                                  poup.value, poup.err,
                                  afterPoup \o accumulatedCdb.writes
                                      \o <<SimulationJSON(total, poup.value)>>)
        ELSE LET total == Round2(loop.cdbFinalValue)
             IN  Outcome("monthly", TRUE, req, cdi, selic, TRUE, selicOk,
                         cdbFailed, perMonth, total, poup.value, poup.err,
                         afterPoup \o <<SimulationJSON(total, poup.value)>>)

(***************************************************************************)
(* SavingHandler: the stored savings and their priorities.  The use case   *)
(* (savingUseCase) is an interface; its calls are modelled by their effect *)
(* on the rows of the store, and each may fail.                            *)
(***************************************************************************)
MaxSavings == 3

NumUsers == 2

Users == 1..NumUsers

Saving(id, userId, priority, isEmergencyFund) ==
    [ID |-> id, UserID |-> userId, Priority |-> priority,
     IsEmergencyFund |-> isEmergencyFund]

\* savingUseCase.GetAllSavings(ctx, userId)
GetAllSavings(userId) == {s \in store : s.UserID = userId}

\* savingUseCase.GetSaving(ctx, id): the rows with that id (none: an error)
GetSaving(id) == {s \in store : s.ID = id}

RECURSIVE MaxPriority(_)
MaxPriority(list) ==
    IF list = {} THEN 0
    ELSE LET s == CHOOSE x \in list : TRUE
             m == MaxPriority(list \ {s})
         IN  IF s.Priority > m THEN s.Priority ELSE m

\* the last operation: its name, HTTP status, the id it was about, and
\* whether every use-case call of every operation so far succeeded
Op(name, status, id, faultFree) ==
    [op |-> name, status |-> status, id |-> id, faultFree |-> faultFree]

NoOp == Op("none", 0, 0, TRUE)

\* Create, from the binding of the request to the response
Create ==
    /\ nextId <= MaxSavings
    /\ \E bindOk \in BOOLEAN, tokenOk \in BOOLEAN, userId \in Users,
          isEmergencyFund \in {0, 1}, listOk \in BOOLEAN, createOk \in BOOLEAN,
          expenseOk \in BOOLEAN :
         LET list        == GetAllSavings(userId)
             useList     == listOk /\ list # {}
             priority    == IF useList THEN MaxPriority(list) + 1 ELSE 1
             existEmergencyFund == \E s \in list : s.IsEmergencyFund > 0
             saving      == Saving(nextId, userId, priority, isEmergencyFund)
         IN  IF ~bindOk \/ ~tokenOk
             THEN /\ listOk /\ createOk /\ expenseOk
                  /\ lastOp' = Op("Create", 422, 0, lastOp.faultFree)
                  /\ UNCHANGED <<store, nextId>>
             ELSE IF useList /\ isEmergencyFund = 1 /\ existEmergencyFund
             THEN /\ createOk /\ expenseOk
                  /\ lastOp' = Op("Create", 422, 0, lastOp.faultFree)
                  /\ UNCHANGED <<store, nextId>>
             ELSE IF ~createOk
             THEN /\ expenseOk
                  /\ lastOp' = Op("Create", 422, 0, FALSE)
                  /\ UNCHANGED <<store, nextId>>
             ELSE /\ store' = store \cup {saving}
                  /\ nextId' = nextId + 1
                  /\ lastOp' = Op("Create", IF expenseOk THEN 201 ELSE 422,
                                  saving.ID,
                                  lastOp.faultFree /\ listOk /\ expenseOk)
    /\ UNCHANGED <<sim, call>>

\* Delete, from the parsing of the id to the response.  The loop over
\* allSavings decrements the Priority of its own copy of each later saving
\* and passes savingToDelete to Update: no remaining row is written, and
\* the Update of the deleted row either finds nothing or stores it again.
Delete ==
    /\ \E id \in 1..MaxSavings, tokenOk \in BOOLEAN, userId \in Users,
          listOk \in BOOLEAN, deleteOk \in BOOLEAN, upsert \in BOOLEAN :
         LET found == GetSaving(id)
             savingToDelete == CHOOSE s \in found : TRUE
             deletedPriority == savingToDelete.Priority
             allSavings == GetAllSavings(userId)
             updated == {s \in allSavings : s.Priority > deletedPriority}
         IN  IF ~tokenOk
             THEN /\ listOk /\ deleteOk /\ ~upsert
                  /\ lastOp' = Op("Delete", 422, id, lastOp.faultFree)
                  /\ UNCHANGED store
             ELSE IF found = {}
             THEN /\ listOk /\ deleteOk /\ ~upsert
                  /\ lastOp' = Op("Delete", 404, id, lastOp.faultFree)
                  /\ UNCHANGED store
             ELSE IF savingToDelete.UserID # userId
             THEN /\ listOk /\ deleteOk /\ ~upsert
                  /\ lastOp' = Op("Delete", 422, id, lastOp.faultFree)
                  /\ UNCHANGED store
             ELSE IF ~listOk
             THEN /\ deleteOk /\ ~upsert
                  /\ lastOp' = Op("Delete", 422, id, FALSE)
                  /\ UNCHANGED store
             ELSE IF ~deleteOk
             THEN /\ ~upsert
                  /\ lastOp' = Op("Delete", 422, id, FALSE)
                  /\ UNCHANGED store
             ELSE /\ (upsert => updated # {})
                  /\ store' = IF upsert THEN store
                              ELSE store \ {savingToDelete}
                  /\ lastOp' = Op("Delete", 200, id, lastOp.faultFree)
    /\ UNCHANGED <<sim, call, nextId>>

(***************************************************************************)
(* SimulateCDB applied to bounded inputs, one month count after another    *)
(***************************************************************************)
MaxCdbMonths == 25

CdiValues == {0, 500, 1000}

InitialValues == {0, 19900, 50000, 100000, 105000}

NoSim == [applied |-> FALSE, initialValue |-> 0, months |-> 0, metric |-> 0,
          totalDays |-> 0, taxRate |-> 0, value |-> 0, hasPrev |-> FALSE,
          prev |-> 0]

Evaluate(initialValue, months, metric, hasPrev, prev) ==
    [applied |-> TRUE, initialValue |-> initialValue, months |-> months,
     metric |-> metric, totalDays |-> TotalDays(months),
     taxRate |-> TaxRate(TotalDays(months)),
     value |-> CDBValue(initialValue, months, metric),
     hasPrev |-> hasPrev, prev |-> prev]

\* no request is being served
NoCall ==
    Outcome("none", TRUE, ZeroRequest, 0, 0, TRUE, TRUE, {}, Fin(0), 0, Fin(0),
            FALSE, <<>>)

InitCDB ==
    /\ sim \in {[NoSim EXCEPT !.initialValue = iv, !.metric = m] :
                    iv \in InitialValues, m \in CdiValues}
    /\ call = NoCall
    /\ store = {}
    /\ nextId = 1
    /\ lastOp = NoOp

\* the first simulation, for any month count
ApplyCDB ==
    /\ ~sim.applied
    /\ \E months \in 1..MaxCdbMonths :
         sim' = Evaluate(sim.initialValue, months, sim.metric, FALSE, 0)
    /\ UNCHANGED <<call, store, nextId, lastOp>>

\* the same principal and rate, one month longer
ApplyCDBNextMonth ==
    /\ sim.applied
    /\ sim.months < MaxCdbMonths
    /\ sim' = Evaluate(sim.initialValue, sim.months + 1, sim.metric, TRUE, sim.value)
    /\ UNCHANGED <<call, store, nextId, lastOp>>

NextCDB == ApplyCDB \/ ApplyCDBNextMonth

SpecCDB == InitCDB /\ [][NextCDB]_vars

(***************************************************************************)
(* Requests: bounded inputs and rate-fetch outcomes                        *)
(***************************************************************************)
MaxMonths == 4

RequestMonths == (-1)..MaxMonths

RequestValues == {-15000, 0, 19900, 100000}

AccumulatedValues == {NoAccumulated, [has |-> TRUE, val |-> 55000]}

RequestCdiValues == {0, 1000}

SelicValues == {0, 80000, 130000}

Requests ==
    [InitialValue : RequestValues, Months : RequestMonths,
     Accumulated : AccumulatedValues]

InitRendiments ==
    /\ call = NoCall
    /\ sim = NoSim
    /\ store = {}
    /\ nextId = 1
    /\ lastOp = NoOp

\* every request is served on a context of its own
SimulateAllRendiments ==
    /\ call = NoCall
    /\ \/ call' = BindFailure("all")
       \/ \E req \in Requests, cdi \in RequestCdiValues, selic \in SelicValues,
             cdiOk \in BOOLEAN, selicOk \in BOOLEAN :
            call' = SimulateAllRendimentsCall(req, cdi, selic, cdiOk, selicOk)
    /\ UNCHANGED <<sim, store, nextId, lastOp>>

SimulateMonthlyRendiments ==
    /\ call = NoCall
    /\ \/ call' = BindFailure("monthly")
       \/ \E req \in Requests, cdi \in RequestCdiValues, selic \in SelicValues,
             cdiOk \in BOOLEAN, selicOk \in BOOLEAN :
            \E cdbFailed \in SUBSET (0..(req.Months - 1)) :
               /\ (~req.Accumulated.has => cdiOk)
               /\ call' = SimulateMonthlyRendimentsCall(req, cdi, selic, cdiOk,
                                                        selicOk, cdbFailed)
    /\ UNCHANGED <<sim, store, nextId, lastOp>>

\* the response is sent and the context released
Respond ==
    /\ call # NoCall
    /\ call' = NoCall
    /\ UNCHANGED <<sim, store, nextId, lastOp>>

NextRendiments == SimulateAllRendiments \/ SimulateMonthlyRendiments \/ Respond

SpecRendiments == InitRendiments /\ [][NextRendiments]_vars

InitSaving ==
    /\ store = {}
    /\ nextId = 1
    /\ lastOp = NoOp
    /\ sim = NoSim
    /\ call = NoCall

NextSaving == Create \/ Delete

SpecSaving == InitSaving /\ [][NextSaving]_vars

\* the schedule applied to (months / 12) * 365 with real-number division:
\* days < d exactly when months * 365 < d * 12
RealDaysTaxRate(months) ==
    IF months * ONE_YEAR_DAYS < 180 * 12 THEN UNTIL_180_DAYS
    ELSE IF months * ONE_YEAR_DAYS < 360 * 12 THEN UNTIL_360_DAYS
    ELSE IF months * ONE_YEAR_DAYS < 720 * 12 THEN UNTIL_720_DAYS
    ELSE MORE_THAN_720_DAYS

\* C4: for every months >= 1 SimulateCDB taxes by the four-tier schedule
\* applied to the real-valued (months / 12) * 365; a 6-month simulation is
\* taxed at 20.0%.
C4_TaxTierFromRealDays ==
    sim.applied => sim.taxRate = RealDaysTaxRate(sim.months)

\* C6 as stated: for every principal >= 0, fractional ones included, and a
\* positive adjusted daily rate, one more month never lowers the result.
C6_MonotoneInMonths ==
    (sim.hasPrev /\ sim.initialValue >= 0 /\ AdjustedDailyCdi(sim.metric) > 0)
        => sim.value >= sim.prev

\* C6 amended: for every whole-number principal >= 0 and a positive adjusted
\* daily rate, one more month never lowers the result of SimulateCDB, the
\* month counts at which the tax tier changes included.
C6_MonotoneInMonthsWholePrincipal ==
    (/\ sim.hasPrev
     /\ sim.initialValue >= 0
     /\ Floor(sim.initialValue) = sim.initialValue
     /\ AdjustedDailyCdi(sim.metric) > 0)
        => sim.value >= sim.prev

\* a whole principal simulated across a change of tax tier, with a gain
C6_Witness ==
    /\ sim.hasPrev
    /\ sim.initialValue > 0
    /\ Floor(sim.initialValue) = sim.initialValue
    /\ AdjustedDailyCdi(sim.metric) > 0
    /\ TaxRate(TotalDays(sim.months)) # TaxRate(TotalDays(sim.months - 1))
    /\ sim.value > sim.prev

(***************************************************************************)
(* Claims about the handlers                                               *)
(***************************************************************************)
Served(handler) == call.handler = handler /\ call.bindOk

\* the request satisfies the SimulationInput contract
ValidInput == call.Months >= 1 /\ call.InitialValue >= 0

SuccessWritten ==
    \E k \in 1..Len(call.writes) : call.writes[k].simulation

SuccessWrite ==
    call.writes[CHOOSE k \in 1..Len(call.writes) : call.writes[k].simulation]

RECURSIVE SumOf(_, _)
SumOf(f, S) ==
    IF S = {} THEN 0
    ELSE LET x == CHOOSE y \in S : TRUE IN f[x] + SumOf(f, S \ {x})

\* the iterations of the monthly loop whose rate fetch succeeded
Fetched == (0..(call.Months - 1)) \ call.cdbFailed

\* no rate fetch of the request failed
AllFetched == call.cdiOk /\ call.selicOk /\ call.cdbFailed = {}

\* the fixed-income amount of iteration i before SimulateCDB rounds it
UnroundedTerm == [i \in Fetched |-> NetAmount(call.perMonth.v, i, call.cdi)]

RoundedTerm == [i \in Fetched |-> Round2(UnroundedTerm[i])]

\* the accumulated-amount leg, before and after SimulateCDB rounds it
UnroundedAccumulated ==
    IF call.Accumulated.has /\ call.cdiOk
    THEN NetAmount(call.Accumulated.val, call.Months, call.cdi)
    ELSE 0

\* C1: in lump-sum mode a failed rate fetch makes the engine call signal a
\* failure, and no success response with projected values is produced.
C1_LumpSumRateFailureIsFatal ==
    (Served("all") /\ ValidInput /\ (~call.cdiOk \/ ~call.selicOk))
        => (call.engineErr /\ ~SuccessWritten)

\* C2: in monthly mode a failed rate fetch in the savings leg or in the
\* accumulated-amount leg aborts the request: no success response is emitted.
C2_MonthlyFatalLegs ==
    (/\ Served("monthly")
     /\ ValidInput
     /\ (~call.selicOk \/ (call.Accumulated.has /\ ~call.cdiOk)))
        => ~SuccessWritten

\* C3: in monthly mode, when the rate fetch fails for exactly one iteration
\* and every other fetch succeeds, the request ends with a normal response
\* (one write, status 200) whose fixed-income total is the rounded sum of the
\* other iterations' values.  (Stated for a nonzero savings rate, where the
\* savings leg is defined.)
C3_OneFailedIterationSkipped ==
    (/\ Served("monthly")
     /\ ValidInput
     /\ MonthTax(call.selic) # 0
     /\ Cardinality(call.cdbFailed) = 1
     /\ call.selicOk
     /\ call.cdiOk)
        => /\ Len(call.writes) = 1
           /\ call.writes[1].simulation
           /\ call.writes[1].status = 200
           /\ call.writes[1].cdb =
                  Round2(SumOf(RoundedTerm, Fetched) + Round2(UnroundedAccumulated))

\* C5: both entry points answer months <= 0 or a negative principal with an
\* invalid-input failure and return no projected values; the monthly entry
\* point does not divide by months = 0.  (Stated for requests whose rate
\* fetches all succeed.)
C5_InvalidInputRejected ==
    (/\ call.handler # "none"
     /\ call.bindOk
     /\ AllFetched
     /\ (call.Months <= 0 \/ call.InitialValue < 0))
        => /\ ~SuccessWritten
           /\ Len(call.writes) = 1
           /\ call.writes[1].status \in {400, 422}
           /\ call.perMonth.fin

\* C7 as stated: the monthly fixed-income total is rounded once, after the
\* summation of terms that are not themselves rounded.  (Stated for requests
\* whose rate fetches all succeed.)
C7_RoundedOnceAfterSum ==
    (Served("monthly") /\ ValidInput /\ AllFetched /\ SuccessWritten)
        => SuccessWrite.cdb =
               Round2(SumOf(UnroundedTerm, Fetched) + UnroundedAccumulated)

\* C7 amended: the monthly fixed-income total is the sum of the per-iteration
\* values and of the accumulated-amount value, each already rounded to 2
\* decimals by SimulateCDB, and that sum is rounded to 2 decimals once more.
C7_SumOfRoundedTerms ==
    (Served("monthly") /\ ValidInput /\ SuccessWritten)
        => SuccessWrite.cdb =
               Round2(SumOf(RoundedTerm, Fetched) + Round2(UnroundedAccumulated))

\* a monthly request of several iterations, all fetched, whose total differs
\* from the rounding of the unrounded sum
C7_Witness ==
    /\ Served("monthly")
    /\ ValidInput
    /\ SuccessWritten
    /\ call.Months >= 2
    /\ AllFetched
    /\ call.Accumulated.has
    /\ SuccessWrite.cdb #
           Round2(SumOf(UnroundedTerm, Fetched) + UnroundedAccumulated)

\* C8: with an effective monthly rate of 0, SimulatePoupancaMonthly returns
\* a defined (finite) value for every contribution and months >= 1.
C8_ZeroRateIsDefined ==
    (/\ Served("monthly")
     /\ ValidInput
     /\ AllFetched
     /\ MonthTax(call.selic) = 0)
        => call.poup.fin

\* C9: every execution of a handler writes exactly one response; after an
\* AbortWithStatusJSON nothing more is written.  (Stated for requests that
\* satisfy the input contract and a nonzero savings rate.)
C9_ExactlyOneResponse ==
    (call.handler # "none" /\ ValidInput /\ MonthTax(call.selic) # 0)
        => Len(call.writes) = 1

(***************************************************************************)
(* Claims about SavingHandler                                              *)
(***************************************************************************)
Priorities(userId) == {s.Priority : s \in GetAllSavings(userId)}

\* C10: after any sequence of successful Create and Delete operations, each
\* user's stored priorities are pairwise distinct and are exactly 1..n for
\* the n savings stored, and a deleted saving is no longer stored.
C10_PrioritiesAreDense ==
    lastOp.faultFree =>
        /\ \A u \in Users :
             /\ Priorities(u) = 1..Cardinality(GetAllSavings(u))
             /\ Cardinality(Priorities(u)) = Cardinality(GetAllSavings(u))
        /\ (lastOp.op = "Delete" /\ lastOp.status = 200) => GetSaving(lastOp.id) = {}

====
